---- MODULE Spec2Model ----
(***************************************************************************)
(* Model of the document archiver management command                        *)
(* (src/documents/management/commands/document_archiver.py):                *)
(* Command.handle selects the candidate ids and maps handle_document over   *)
(* them with a multiprocessing pool; handle_document runs the per-document  *)
(* parse -> thumbnail -> commit -> index pipeline.                          *)
(***************************************************************************)
EXTENDS Integers, Sequences, FiniteSets, TLC

\* ---------------------------------------------------------------- bounds
NDocs == 2          \* documents in the repository
TASK_WORKERS == 2   \* settings.TASK_WORKERS, the pool size W
MaxRuns == 2        \* consecutive invocations of the command
MaxCounter == 1     \* highest counter the filename generator tries
NStems == 2         \* distinct filename stems the naming policy yields
NBytes == 2         \* distinct archive file contents a parser can produce

Docs == 1..NDocs
Workers == 1..TASK_WORKERS
Bytes == 1..NBytes
Stems == 1..NStems

\* ------------------------------------------------------- values and types
NoFile == 0                 \* no file at a path / no scratch file produced
NoSum == 0                  \* archive_checksum is NULL
NoText == ""                \* content is unset
NoName == <<>>              \* archive_filename is NULL
NoDoc == 0                  \* option --document not given / worker has no task

MimeTypes == {"application/pdf", "text/plain", "application/x-unknown"}
Names == {<<s, c>> : s \in Stems, c \in 0..MaxCounter}

\* hashlib.md5(f.read()).hexdigest(): a digest of the bytes, injective on the
\* file contents of the model (multiplication by 5 modulo 7 permutes 1..6).
md5(bytes) == ((bytes * 5) % 7) + 10

Record(sum, text, name) ==
    [archive_checksum |-> sum, content |-> text, archive_filename |-> name]

UnsetRecord == Record(NoSum, NoText, NoName)

\* Document.has_archive_version: true iff the archive triple is set.
has_archive_version(rec) ==
    /\ rec.archive_filename # NoName
    /\ rec.archive_checksum # NoSum
    /\ rec.content # NoText

\* parsers.get_parser_class_for_mime_type: the registry, "none" if unsupported.
get_parser_class_for_mime_type(mime_type) ==
    CASE mime_type = "application/pdf" -> "PdfParser"
      [] mime_type = "text/plain" -> "TextParser"
      [] OTHER -> "none"

\* parser.get_archive_path() after parse: the PDF parser writes an archive
\* file, the text parser produces none.
ProducesArchive(parser_class) == parser_class = "PdfParser"

VARIABLES
    mime,          \* Document.mime_type of every document (immutable)
    stem,          \* stem the naming policy derives for every document
    db,            \* committed records: the three archive fields per document
    files,         \* archive directory: bytes at every archive path
    thumbs,        \* thumbnail directory: bytes at every thumbnail path
    index,         \* search index entry per document
    lock,          \* holder of FileLock(settings.MEDIA_LOCK), 0 when free
    run,           \* number of invocations of Command.handle so far
    overwrite,     \* options["overwrite"] of the current run
    docopt,        \* options["document"] of the current run, 0 when absent
    document_ids,  \* the candidate list of the current run
    queue,         \* ids not yet handed to a worker
    completed,     \* results the dispatcher has received
    errorPosted,   \* a worker returned an exception as its result
    dispatcher,    \* "idle" | "waiting" | "returned" | "raised"
    interrupted,   \* KeyboardInterrupt arrived in the current run
    wk,            \* per worker: position in handle_document and its locals
    invoked,       \* per document: handle_document calls in the current run
    committed,     \* documents whose transaction committed in the current run
    prev           \* options and commits of the previous run

vars == <<mime, stem, db, files, thumbs, index, lock, run, overwrite, docopt,
          document_ids, queue, completed, errorPosted, dispatcher,
          interrupted, wk, invoked, committed, prev>>

repo == <<db, files, thumbs, index>>
env == <<mime, stem>>
job == <<run, overwrite, docopt, document_ids, prev>>

\* ------------------------------------------------------------ worker state
IdleWorker ==
    [pc |-> "idle", id |-> NoDoc, document |-> UnsetRecord,
     parser |-> "none", text |-> NoText, archive |-> NoFile,
     thumbnail |-> NoFile, checksum |-> NoSum, staged |-> FALSE,
     update |-> UnsetRecord, failed |-> FALSE]

\* ------------------------------------------------------------------- Init
\* The archive name an already archived document got when it was archived:
\* documents were archived one after the other, each taking the first counter
\* that was free for its stem.
InitCounter(st, arch, d) ==
    Cardinality({o \in Docs : o < d /\ o \in arch /\ st[o] = st[d]})

InitName(st, arch, d) == <<st[d], InitCounter(st, arch, d)>>

Init ==
    /\ mime \in [Docs -> MimeTypes]
    /\ stem \in [Docs -> Stems]
    /\ stem[1] = 1
    /\ \E arch \in SUBSET Docs :
        /\ \A d \in arch :
              /\ get_parser_class_for_mime_type(mime[d]) = "PdfParser"
              /\ InitCounter(stem, arch, d) <= MaxCounter
        /\ db = [d \in Docs |->
                   IF d \in arch
                   THEN Record(md5(1), "old text", InitName(stem, arch, d))
                   ELSE UnsetRecord]
        /\ files = [n \in Names |->
                   IF \E d \in arch : InitName(stem, arch, d) = n
                   THEN 1 ELSE NoFile]
        /\ thumbs = [d \in Docs |-> IF d \in arch THEN 1 ELSE NoFile]
    /\ index = [d \in Docs |->
                 [content |-> db[d].content,
                  archive_filename |-> db[d].archive_filename]]
    /\ lock = 0
    /\ run = 0
    /\ overwrite = FALSE
    /\ docopt = NoDoc
    /\ document_ids = <<>>
    /\ queue = <<>>
    /\ completed = 0
    /\ errorPosted = FALSE
    /\ dispatcher = "idle"
    /\ interrupted = FALSE
    /\ wk = [w \in Workers |-> IdleWorker]
    /\ invoked = [d \in Docs |-> 0]
    /\ committed = {}
    /\ prev = [overwrite |-> FALSE, docopt |-> NoDoc, committed |-> {}]

\* --------------------------------------------------------- Command.handle
\* mutant: the pk filter of line 135 is lost
Queryset_all(document) == Docs

\* lines 134-137: the queryset the candidates are filtered from
Queryset(document) ==
    IF document # NoDoc THEN {d \in Docs : d = document} ELSE Docs

\* mutant: the "not" of line 142 is lost
Eligible_no_not(ov, rec) == ov \/ has_archive_version(rec)

\* mutant: the filter of line 142 ignores the overwrite flag
Eligible_no_overwrite(ov, rec) == ~has_archive_version(rec)

\* line 142: the filter lambda
Eligible(ov, rec) == ov \/ ~has_archive_version(rec)

\* the queryset in the repository's default order, as a list
RECURSIVE Ordered(_, _)
Ordered(S, d) ==
    IF d > NDocs THEN <<>>
    ELSE IF d \in S THEN <<d>> \o Ordered(S, d + 1)
    ELSE Ordered(S, d + 1)

\* lines 139-145: document_ids
Candidates(ov, document, records) ==
    Ordered({d \in Queryset(document) : Eligible(ov, records[d])}, 1)

\* lines 128-155: options read, candidates selected, pool started
Handle(ov, document) ==
    /\ dispatcher \in {"idle", "returned", "raised"}
    /\ run < MaxRuns
    /\ run' = run + 1
    /\ overwrite' = ov
    /\ docopt' = document
    /\ document_ids' = Candidates(ov, document, db)
    /\ queue' = document_ids'
    /\ completed' = 0
    /\ errorPosted' = FALSE
    /\ interrupted' = FALSE
    /\ dispatcher' = "waiting"
    /\ invoked' = [d \in Docs |-> 0]
    /\ committed' = {}
    /\ prev' = [overwrite |-> overwrite, docopt |-> docopt,
                committed |-> committed]
    /\ UNCHANGED <<repo, env, lock, wk>>

\* lines 155-162: the dispatcher has received every result
Finish ==
    /\ dispatcher = "waiting"
    /\ ~errorPosted
    /\ completed = Len(document_ids)
    /\ dispatcher' = "returned"
    /\ UNCHANGED <<repo, env, job, lock, queue, completed, errorPosted,
                   interrupted, wk, invoked, committed>>

\* Pool.__exit__ -> terminate(): every worker process is killed; its open
\* transaction is rolled back with its connection and its file lock is freed.
Terminated == [w \in Workers |-> IdleWorker]

\* lines 156-162: imap_unordered re-raises a task's exception in the
\* dispatcher; it is no KeyboardInterrupt, so it leaves Command.handle.
PropagateError ==
    /\ dispatcher = "waiting"
    /\ errorPosted
    /\ dispatcher' = "raised"
    /\ wk' = Terminated
    /\ lock' = 0
    /\ UNCHANGED <<repo, env, job, queue, completed, errorPosted,
                   interrupted, invoked, committed>>

\* mutant: the except clause of line 163 is missing
OnKeyboardInterrupt_uncaught == "raised"

\* lines 163-164: except KeyboardInterrupt: print("Aborting...")
OnKeyboardInterrupt == "returned"

\* SIGINT while the dispatcher waits inside the with-block (lines 155-164)
Interrupt ==
    /\ dispatcher = "waiting"
    /\ interrupted' = TRUE
    /\ dispatcher' = OnKeyboardInterrupt
    /\ wk' = Terminated
    /\ lock' = 0
    /\ UNCHANGED <<repo, env, job, queue, completed, errorPosted,
                   invoked, committed>>

\* -------------------------------------------------------- handle_document
Goto(w, rec) == wk' = [wk EXCEPT ![w] = rec]

\* a worker process fetches the next id from the pool's task queue; the
\* processes are interchangeable, so the idle one of least rank takes it
TakeTask(w) ==
    /\ dispatcher = "waiting"
    /\ wk[w].pc = "idle"
    /\ \A v \in Workers : v < w => wk[v].pc # "idle"
    /\ queue # <<>>
    /\ Goto(w, [IdleWorker EXCEPT !.pc = "get", !.id = Head(queue)])
    /\ queue' = Tail(queue)
    /\ invoked' = [invoked EXCEPT ![Head(queue)] = @ + 1]
    /\ UNCHANGED <<repo, env, job, lock, completed, errorPosted, dispatcher,
                   interrupted, committed>>

\* an exception leaves handle_document: the pool worker sends it back as the
\* task's result and goes on with the next task
Escapes(w) ==
    /\ Goto(w, IdleWorker)
    /\ errorPosted' = TRUE
    /\ UNCHANGED <<repo, env, job, lock, queue, completed, dispatcher,
                   interrupted, invoked, committed>>

\* handle_document returns: the result reaches the dispatcher
Returns(w) ==
    /\ Goto(w, IdleWorker)
    /\ completed' = completed + 1
    /\ UNCHANGED <<env, job, lock, queue, errorPosted, dispatcher,
                   interrupted, invoked>>

\* a step of the pipeline that touches nothing but the worker's locals
Local(w, rec) ==
    /\ Goto(w, rec)
    /\ UNCHANGED <<repo, env, job, lock, queue, completed, errorPosted,
                   dispatcher, interrupted, invoked, committed>>

\* mutant: parser.cleanup() is not in a finally clause, so the exception path
\* ends the invocation without it
Caught_no_finally(w) == IdleWorker

\* lines 95-97: the exception is logged; an open transaction.atomic() block
\* has rolled the staged update back on the way out
Caught(w) ==
    [IdleWorker EXCEPT !.pc = "cleanup", !.id = wk[w].id,
                       !.parser = wk[w].parser, !.failed = TRUE]

\* line 43: Document.objects.get(id=document_id)
GetDocument(w) ==
    /\ wk[w].pc = "get"
    /\ \/ Local(w, [wk[w] EXCEPT !.pc = "lookup", !.document = db[wk[w].id]])
       \/ Escapes(w)

\* mutant: the early return of lines 52-55 is missing
SkipDocument_never(parser_class) == FALSE

\* line 52: if not parser_class
SkipDocument(parser_class) == parser_class = "none"

\* lines 45-57: parser lookup; without a parser the document is skipped,
\* otherwise the parser is constructed (calling "none" raises)
Lookup(w) ==
    /\ wk[w].pc = "lookup"
    /\ LET parser_class == get_parser_class_for_mime_type(mime[wk[w].id]) IN
       IF SkipDocument(parser_class)
       THEN Returns(w) /\ UNCHANGED <<repo, committed>>
       ELSE \/ /\ parser_class # "none"
               /\ Local(w, [wk[w] EXCEPT !.pc = "parse",
                                         !.parser = parser_class])
            \/ Escapes(w)

\* mutant: parser.parse is called outside the try block, so its exception
\* leaves handle_document
Parse_uncaught(w) ==
    /\ wk[w].pc = "parse"
    /\ \/ \E bytes \in Bytes :
            Local(w, [wk[w] EXCEPT
                        !.pc = "thumbnail",
                        !.text = "new text",
                        !.archive = IF ProducesArchive(wk[w].parser)
                                    THEN bytes ELSE NoFile])
       \/ Escapes(w)

\* lines 60-63: parser.parse(...)
Parse(w) ==
    /\ wk[w].pc = "parse"
    /\ \/ \E bytes \in Bytes :
            Local(w, [wk[w] EXCEPT
                        !.pc = "thumbnail",
                        !.text = "new text",
                        !.archive = IF ProducesArchive(wk[w].parser)
                                    THEN bytes ELSE NoFile])
       \/ Local(w, Caught(w))

\* mutant: the test of line 71 is missing
HasArchivePath_always(archive) == TRUE

\* line 71: if parser.get_archive_path()
HasArchivePath(archive) == archive # NoFile

\* lines 65-71: parser.get_optimised_thumbnail(...), then the test whether
\* the parser produced an archive file
Thumbnail(w) ==
    /\ wk[w].pc = "thumbnail"
    /\ \/ Local(w, [wk[w] EXCEPT
                      !.pc = IF HasArchivePath(wk[w].archive)
                             THEN "begin" ELSE "cleanup",
                      !.thumbnail = 1])
       \/ Local(w, Caught(w))

\* file_handling.generate_unique_filename(document, archive_filename=True):
\* tries the names the naming policy yields for the document, counter by
\* counter, and returns the first one that is the document's own or that no
\* record visible to the caller and no file in the archive directory uses;
\* NoName when the attempts are exhausted.
RECURSIVE generate_unique_filename(_, _, _, _, _)
generate_unique_filename(d, old_filename, records, dir, counter) ==
    IF counter > MaxCounter THEN NoName
    ELSE LET new_filename == <<stem[d], counter>> IN
         IF new_filename = old_filename THEN new_filename
         ELSE IF \/ dir[new_filename] # NoFile
                 \/ \E o \in Docs \ {d} :
                        records[o].archive_filename = new_filename
              THEN generate_unique_filename(d, old_filename, records, dir,
                                            counter + 1)
              ELSE new_filename

\* mutant: the files are moved before the record update is written
BeginCommit_move_first(w) ==
    /\ wk[w].pc = "begin"
    /\ LET name == generate_unique_filename(
                       wk[w].id, wk[w].document.archive_filename, db, files, 0)
       IN \/ /\ name # NoName
             /\ Local(w, [wk[w] EXCEPT !.pc = "lock",
                                       !.checksum = md5(wk[w].archive),
                                       !.document.archive_filename = name])
          \/ Local(w, Caught(w))

\* lines 72-80: transaction.atomic() is entered, the archive file is read and
\* hashed, and document.archive_filename = generate_unique_filename(...).
\* The other workers' uncommitted updates are invisible to this transaction.
BeginCommit(w) ==
    /\ wk[w].pc = "begin"
    /\ LET name == generate_unique_filename(
                       wk[w].id, wk[w].document.archive_filename, db, files, 0)
       IN \/ /\ name # NoName
             /\ Local(w, [wk[w] EXCEPT !.pc = "update",
                                       !.checksum = md5(wk[w].archive),
                                       !.document.archive_filename = name])
          \/ Local(w, Caught(w))

\* mutant: content is left out of the update of lines 81-85
UpdateValues_no_content(checksum, text, archive_filename) ==
    [archive_checksum |-> checksum, archive_filename |-> archive_filename]

\* lines 81-85: the values of the partial update
UpdateValues(checksum, text, archive_filename) ==
    [archive_checksum |-> checksum, content |-> text,
     archive_filename |-> archive_filename]

\* Document.objects.filter(pk=...).update(**values) on a row
ApplyUpdate(rec, values) ==
    [f \in DOMAIN rec |-> IF f \in DOMAIN values THEN values[f] ELSE rec[f]]

\* lines 81-85: the update is staged in the open transaction
Update(w) ==
    /\ wk[w].pc = "update"
    /\ \/ Local(w, [wk[w] EXCEPT
                      !.pc = "lock",
                      !.staged = TRUE,
                      !.update = UpdateValues(wk[w].checksum, wk[w].text,
                                     wk[w].document.archive_filename)])
       \/ Local(w, Caught(w))

\* mutant: the region of lines 87-90 is entered without waiting for the lock
AcquireLock_no_wait(w) ==
    /\ wk[w].pc = "lock"
    /\ lock' = w
    /\ Goto(w, [wk[w] EXCEPT !.pc = "move_archive"])
    /\ UNCHANGED <<repo, env, job, queue, completed, errorPosted,
                   dispatcher, interrupted, invoked, committed>>

\* line 86: with FileLock(settings.MEDIA_LOCK): blocks until the lock is free
AcquireLock(w) ==
    /\ wk[w].pc = "lock"
    /\ lock = 0
    /\ lock' = w
    /\ Goto(w, [wk[w] EXCEPT !.pc = "move_archive"])
    /\ UNCHANGED <<repo, env, job, queue, completed, errorPosted,
                   dispatcher, interrupted, invoked, committed>>

\* an exception inside the locked region: the lock is released on the way out
CaughtLocked(w) ==
    /\ Goto(w, Caught(w))
    /\ lock' = 0
    /\ UNCHANGED <<repo, env, job, queue, completed, errorPosted,
                   dispatcher, interrupted, invoked, committed>>

\* lines 87-88: create_source_path_directory(document.archive_path) and
\* shutil.move(parser.get_archive_path(), document.archive_path)
MoveArchive(w) ==
    /\ wk[w].pc = "move_archive"
    /\ lock = w
    /\ \/ /\ files' = [files EXCEPT
                         ![wk[w].document.archive_filename] = wk[w].archive]
          /\ Goto(w, [wk[w] EXCEPT !.pc = "move_thumbnail"])
          /\ UNCHANGED <<db, thumbs, index, env, job, lock, queue, completed,
                         errorPosted, dispatcher, interrupted, invoked,
                         committed>>
       \/ CaughtLocked(w)

\* line 90: shutil.move(thumbnail, document.thumbnail_path); the with-block
\* of line 86 ends and the lock is released
MoveThumbnail(w) ==
    /\ wk[w].pc = "move_thumbnail"
    /\ lock = w
    /\ \/ /\ thumbs' = [thumbs EXCEPT ![wk[w].id] = wk[w].thumbnail]
          /\ lock' = 0
          /\ Goto(w, [wk[w] EXCEPT !.pc = "commit"])
          /\ UNCHANGED <<db, files, index, env, job, queue, completed,
                         errorPosted, dispatcher, interrupted, invoked,
                         committed>>
       \/ CaughtLocked(w)

\* mutant: the index update is nested in the transaction, which is still
\* open when it starts
Commit_nested_index(w) ==
    /\ wk[w].pc = "commit"
    /\ Local(w, [wk[w] EXCEPT !.pc = "index"])

\* end of the transaction.atomic() block of line 72: the staged update is
\* committed, or the commit fails and it is rolled back
Commit(w) ==
    /\ wk[w].pc = "commit"
    /\ \/ /\ db' = [db EXCEPT
                      ![wk[w].id] = IF wk[w].staged
                                    THEN ApplyUpdate(@, wk[w].update) ELSE @]
          /\ committed' = committed \cup {wk[w].id}
          /\ Goto(w, [wk[w] EXCEPT !.pc = "index", !.staged = FALSE])
          /\ UNCHANGED <<files, thumbs, index, env, job, lock, queue,
                         completed, errorPosted, dispatcher, interrupted,
                         invoked>>
       \/ Local(w, Caught(w))

\* index.update_document(writer, document): the entry is built from the
\* document object the caller passes
IndexEntry(document) ==
    [content |-> document.content,
     archive_filename |-> document.archive_filename]

\* lines 92-93: the index entry of the document is upserted
IndexUpdate(w) ==
    /\ wk[w].pc = "index"
    /\ \/ /\ index' = [index EXCEPT ![wk[w].id] = IndexEntry(wk[w].document)]
          /\ Goto(w, [wk[w] EXCEPT !.pc = "cleanup"])
          /\ UNCHANGED <<db, files, thumbs, env, job, lock, queue, completed,
                         errorPosted, dispatcher, interrupted, invoked,
                         committed>>
       \/ Local(w, Caught(w))

\* lines 98-99: finally: parser.cleanup(); handle_document returns
Cleanup(w) ==
    /\ wk[w].pc = "cleanup"
    /\ Returns(w)
    /\ UNCHANGED <<repo, committed>>

Step(w) ==
    \/ TakeTask(w)
    \/ GetDocument(w)
    \/ Lookup(w)
    \/ Parse(w)
    \/ Thumbnail(w)
    \/ BeginCommit(w)
    \/ Update(w)
    \/ AcquireLock(w)
    \/ MoveArchive(w)
    \/ MoveThumbnail(w)
    \/ Commit(w)
    \/ IndexUpdate(w)
    \/ Cleanup(w)

\* ----------------------------------------------------------------- claims
Range(seq) == {seq[i] : i \in DOMAIN seq}

NoParser(d) == get_parser_class_for_mime_type(mime[d]) = "none"

\* workers that have been assigned an archive filename for a document and
\* have not finished its transaction
InCommit(w) ==
    wk[w].pc \in {"update", "lock", "move_archive", "move_thumbnail", "commit"}

\* C1: in every reachable state the committed record of every document has
\* archive_checksum, content and archive_filename all unset or all set.
C1_TripleAllOrNothing ==
    \A d \in Docs :
        \/ /\ db[d].archive_checksum = NoSum
           /\ db[d].content = NoText
           /\ db[d].archive_filename = NoName
        \/ /\ db[d].archive_checksum # NoSum
           /\ db[d].content # NoText
           /\ db[d].archive_filename # NoName

\* C1 witness: a previously unarchived document has been committed while
\* another worker still has its update staged in an open transaction.
C1_Witness ==
    /\ dispatcher = "waiting"
    /\ \E d \in committed :
          /\ db[d].content = "new text"
          /\ db[d].archive_checksum # NoSum
          /\ db[d].archive_filename # NoName
    /\ \E w \in Workers : wk[w].staged /\ db[wk[w].id] = UnsetRecord

C3_Idempotent ==
    (/\ run >= 2
     /\ ~prev.overwrite /\ prev.docopt = NoDoc
     /\ ~overwrite /\ docopt = NoDoc)
    => \A d \in prev.committed :
          /\ d \notin Range(document_ids)
          /\ invoked[d] = 0
          /\ d \notin committed

\* C3 witness: the first plain run committed a document and the second plain
\* run committed another one.
C3_Witness ==
    /\ run >= 2
    /\ ~prev.overwrite /\ prev.docopt = NoDoc
    /\ ~overwrite /\ docopt = NoDoc
    /\ prev.committed # {}
    /\ committed # {}

\* C4: no error raised while handle_document processes a candidate reaches
\* the dispatcher: no task posts an exception and Command.handle never
\* raises.
C4_NoErrorEscapes == ~errorPosted /\ dispatcher # "raised"

\* C5: after a document's commit in the current run, the archive_checksum of
\* its record is the checksum of the bytes at its archive path.
C5_ChecksumMatchesFile ==
    \A d \in committed :
        /\ files[db[d].archive_filename] # NoFile
        /\ db[d].archive_checksum = md5(files[db[d].archive_filename])

\* the archive filenames assigned to a document: the one of its committed
\* record and the one a worker holds for it inside its commit transaction
Assigned(d) ==
    ({db[d].archive_filename} \ {NoName})
    \cup {wk[w].document.archive_filename :
             w \in {v \in Workers : wk[v].id = d /\ InCommit(v)}}

\* C6: no two distinct documents are ever assigned the same archive_filename.
C6_UniqueFilenames ==
    \A d1 \in Docs : \A d2 \in Docs \ {d1} :
        Assigned(d1) \cap Assigned(d2) = {}

\* C7: for a document without a registered parser the lookup step makes
\* handle_document return, with the records, files, thumbnails and index
\* unchanged; such a document never has an archive field set and is in the
\* candidate list of every run with overwrite=false that does not name
\* another document.
C7_UnsupportedMime ==
    /\ [](\A d \in Docs : NoParser(d) =>
             /\ db[d] = UnsetRecord
             /\ (run > 0 /\ ~overwrite /\ docopt \in {NoDoc, d})
                   => d \in Range(document_ids))
    /\ [][\A w \in Workers :
             (/\ wk[w].pc = "lookup"
              /\ NoParser(wk[w].id)
              /\ wk'[w].pc # "lookup"
              /\ dispatcher' = "waiting")
             => /\ wk'[w] = IdleWorker
                /\ completed' = completed + 1
                /\ errorPosted' = errorPosted
                /\ UNCHANGED repo]_vars

\* C7 witness: in a second run without overwrite a document without parser
\* has been handled and returned, and nothing about it is archived.
C7_Witness ==
    /\ run = 2 /\ ~overwrite /\ ~errorPosted
    /\ dispatcher = "returned" /\ ~interrupted
    /\ \E d \in Docs :
          /\ NoParser(d)
          /\ invoked[d] = 1
          /\ d \in Range(document_ids)
          /\ db[d] = UnsetRecord /\ thumbs[d] = NoFile

\* C8: without a document id the candidate list holds exactly the documents
\* d for which overwrite is true or d has no archive version, each once, and
\* selecting them changes no record, file, thumbnail or index entry.
C8_CandidateSet ==
    [][(run' = run + 1 /\ docopt' = NoDoc)
          => /\ Range(document_ids') =
                  {d \in Docs : overwrite' \/ ~has_archive_version(db[d])}
             /\ Len(document_ids') = Cardinality(Range(document_ids'))
             /\ UNCHANGED repo]_vars

\* C8 witness: a run over all documents was just started with overwrite set,
\* and an archived document is among the candidates.
C8_Witness ==
    /\ dispatcher = "waiting" /\ docopt = NoDoc /\ overwrite
    /\ queue = document_ids
    /\ Len(document_ids) = NDocs
    /\ \E d \in Docs : has_archive_version(db[d])
    /\ \E d \in Docs : ~has_archive_version(db[d])

\* C9: once an interrupt has arrived while the dispatcher was waiting,
\* Command.handle has returned normally, no worker is left running and the
\* file lock is free.
C9_InterruptReturns ==
    interrupted =>
        /\ dispatcher = "returned"
        /\ \A w \in Workers : wk[w] = IdleWorker
        /\ lock = 0

\* C9 witness: the interrupt arrived while work was outstanding: a document
\* was handed to a worker and fewer results than candidates came back.
C9_Witness ==
    /\ interrupted
    /\ dispatcher = "returned"
    /\ \E d \in Docs : invoked[d] = 1
    /\ completed < Len(document_ids)
    /\ ~errorPosted

InProgress == {w \in Workers : wk[w].pc # "idle"}

\* C10: in an uninterrupted run every candidate id is handed to
\* handle_document exactly once by the time Command.handle ends, never more
\* than once, with at most TASK_WORKERS invocations in progress and no
\* document in two workers.
C10_ExactlyOnce ==
    /\ \A d \in Docs : invoked[d] <= 1
    /\ Cardinality(InProgress) <= TASK_WORKERS
    /\ \A w1 \in InProgress : \A w2 \in InProgress \ {w1} :
          wk[w1].id # wk[w2].id
    /\ (dispatcher \in {"returned", "raised"} /\ ~interrupted)
          => \A d \in Range(document_ids) : invoked[d] = 1

\* C11: after a successful handle_document run that committed an archive,
\* the index entry of the document holds the content and the
\* archive_filename that this invocation wrote to the record.
C11_IndexReflectsCommit ==
    \A w \in Workers :
        (/\ wk[w].pc = "cleanup" /\ ~wk[w].failed
         /\ wk[w].id \in committed
         /\ wk[w].update # UnsetRecord)
        => /\ index[wk[w].id].content = wk[w].update.content
           /\ index[wk[w].id].archive_filename =
                  wk[w].update.archive_filename

\* a record changes only by the commit that ends the atomic block, which
\* writes the three staged values together; when the thumbnail move fails
\* after the archive file was moved, the staged update is dropped, every
\* record keeps the values it had, the moved archive file stays at its
\* destination, and the lock is released.
RollbackOnMoveFailure ==
    /\ [][\A d \in Docs : db'[d] # db[d] =>
             \E w \in Workers :
                 /\ wk[w].id = d
                 /\ wk[w].pc = "commit" /\ wk'[w].pc = "index"
                 /\ db'[d] = Record(wk[w].update.archive_checksum,
                                    wk[w].update.content,
                                    wk[w].update.archive_filename)]_vars
    /\ [][\A w \in Workers :
             (/\ wk[w].pc = "move_thumbnail"
              /\ wk'[w].pc = "cleanup"
              /\ dispatcher' = "waiting")
             => /\ wk'[w].failed /\ ~wk'[w].staged
                /\ db' = db
                /\ files' = files
                /\ files[wk[w].document.archive_filename] = wk[w].archive
                /\ thumbs' = thumbs /\ index' = index
                /\ lock' = 0]_vars

\* C12: when the thumbnail move fails after the archive file was moved, the
\* record reverts to the values it had before the invocation and is never
\* partially written, and the moved archive file stays at its destination
\* as an orphaned file: no committed record names its path.
C12_OrphanedFile ==
    /\ RollbackOnMoveFailure
    /\ [][\A w \in Workers :
             (/\ wk[w].pc = "move_thumbnail"
              /\ wk'[w].pc = "cleanup"
              /\ dispatcher' = "waiting")
             => \A d \in Docs :
                   db'[d].archive_filename #
                       wk[w].document.archive_filename]_vars

\* the positions of handle_document at which a parser instance exists
HasParser(w) == wk[w].pc \notin {"idle", "get", "lookup"}

\* C13: an invocation that has constructed a parser ends only by the step
\* that runs parser.cleanup(): from every other position, after success or
\* failure, the worker moves on inside the pipeline, and the cleanup step is
\* the last one, taken once, changing nothing but returning the result.
C13_CleanupOnceLast ==
    [][\A w \in Workers :
          (/\ HasParser(w)
           /\ dispatcher' = "waiting"
           /\ wk'[w] # wk[w])
          => /\ (wk'[w].pc = "idle") <=> (wk[w].pc = "cleanup")
             /\ wk'[w].pc = "cleanup" => wk[w].pc # "cleanup"
             /\ wk[w].pc = "cleanup" =>
                   /\ wk'[w] = IdleWorker
                   /\ completed' = completed + 1
                   /\ errorPosted' = errorPosted
                   /\ UNCHANGED <<repo, lock>>]_vars

\* C13 witness: one worker is about to clean up after a failure, another
\* after a committed and indexed document.
C13_Witness ==
    \E w1 \in Workers : \E w2 \in Workers :
        /\ wk[w1].pc = "cleanup" /\ wk[w1].failed
        /\ wk[w2].pc = "cleanup" /\ ~wk[w2].failed
        /\ wk[w2].id \in committed
        /\ wk[w2].update # UnsetRecord

\* the parser of worker w has parsed the document and produced no archive
ParsedWithoutArchive(w) ==
    HasParser(w) /\ wk[w].text # NoText /\ wk[w].archive = NoFile

\* C14: when the parser succeeded without producing an archive file, the
\* invocation only generates the thumbnail and cleans up: it stages no
\* update, never holds the file lock, leaves the record as it was loaded,
\* its steps change no record, file, thumbnail or index entry, and it ends
\* without a failure.
C14_NoArchiveNoChange ==
    /\ [](\A w \in Workers : ParsedWithoutArchive(w) =>
             /\ wk[w].pc \in {"thumbnail", "cleanup"}
             /\ ~wk[w].staged /\ lock # w
             /\ db[wk[w].id] = wk[w].document
             /\ wk[w].id \notin committed
             /\ wk[w].pc = "cleanup" =>
                   (wk[w].thumbnail # NoFile /\ ~wk[w].failed))
    /\ [][\A w \in Workers :
             (/\ ParsedWithoutArchive(w)
              /\ dispatcher' = "waiting"
              /\ wk'[w] # wk[w])
             => /\ UNCHANGED <<repo, lock, errorPosted, committed>>
                /\ wk[w].pc = "thumbnail" => wk'[w].pc = "cleanup"
                /\ wk[w].pc = "cleanup" =>
                      (wk'[w] = IdleWorker /\ completed' = completed + 1)
             ]_vars

\* C14 witness: a text document was parsed and thumbnailed, no archive file
\* was produced, and the worker is about to clean up without failure.
C14_Witness ==
    \E w \in Workers :
        /\ ParsedWithoutArchive(w)
        /\ wk[w].parser = "TextParser"
        /\ wk[w].pc = "cleanup" /\ ~wk[w].failed
        /\ wk[w].thumbnail # NoFile
        /\ db[wk[w].id] = UnsetRecord
        /\ thumbs[wk[w].id] = NoFile

\* C15: the index update of a document starts only when its transaction has
\* been committed (nothing staged, lock released, record triple and moved
\* files in place); the index changes only in that step; and when the index
\* update fails the failure is caught and record, files and thumbnails stay
\* as committed, the index entry staying as it was.
C15_IndexAfterCommit ==
    /\ [](\A w \in Workers : wk[w].pc = "index" =>
             /\ ~wk[w].staged /\ lock # w
             /\ wk[w].id \in committed
             /\ db[wk[w].id] = Record(wk[w].update.archive_checksum,
                                      wk[w].update.content,
                                      wk[w].update.archive_filename)
             /\ thumbs[wk[w].id] = wk[w].thumbnail
             /\ files[wk[w].update.archive_filename] # NoFile)
    /\ [][\A d \in Docs : index'[d] # index[d] =>
             \E w \in Workers : /\ wk[w].id = d /\ wk[w].pc = "index"
                                /\ wk'[w].pc = "cleanup"
                                /\ UNCHANGED <<db, files, thumbs>>]_vars
    /\ [][\A w \in Workers :
             (/\ wk[w].pc = "index" /\ wk'[w].pc = "cleanup"
              /\ wk'[w].failed)
             => /\ UNCHANGED <<repo, lock, errorPosted, committed>>
                /\ dispatcher' = "waiting"]_vars

\* C15 witness: the index update of a committed document has failed; record,
\* archive file and thumbnail are committed and the index entry is stale.
C15_Witness ==
    \E w \in Workers :
        /\ wk[w].pc = "cleanup" /\ wk[w].failed
        /\ wk[w].id \in committed
        /\ has_archive_version(db[wk[w].id])
        /\ db[wk[w].id].content = "new text"
        /\ files[db[wk[w].id].archive_filename] # NoFile
        /\ thumbs[wk[w].id] # NoFile
        /\ index[wk[w].id].content # db[wk[w].id].content

\* C16: a step of parser.parse or parser.get_optimised_thumbnail, raising or
\* not, changes no record, file, thumbnail or index entry and posts no error
\* to the dispatcher; when it raises, the invocation goes to cleanup as
\* failed with the remaining candidates still queued, and the cleanup of a
\* failed invocation reports the task as completed, so the batch goes on.
C16_ParserFailure ==
    /\ [][\A w \in Workers :
             (/\ wk[w].pc \in {"parse", "thumbnail"}
              /\ wk'[w] # wk[w]
              /\ dispatcher' = "waiting")
             => /\ wk'[w].pc \in {"thumbnail", "begin", "cleanup"}
                /\ wk'[w].id = wk[w].id
                /\ UNCHANGED <<repo, lock, queue, completed, errorPosted,
                               committed>>]_vars
    /\ [][\A w \in Workers :
             (/\ wk[w].pc = "cleanup" /\ wk[w].failed
              /\ wk'[w] # wk[w]
              /\ dispatcher' = "waiting")
             => /\ wk'[w] = IdleWorker
                /\ completed' = completed + 1
                /\ UNCHANGED <<repo, lock, queue, errorPosted>>]_vars

\* C16 witness: the parser of a text document (which is never committed) has
\* raised; the document is as before and another candidate is still queued.
C16_Witness ==
    \E w \in Workers :
        /\ wk[w].parser = "TextParser"
        /\ wk[w].pc = "cleanup" /\ wk[w].failed
        /\ db[wk[w].id] = UnsetRecord
        /\ thumbs[wk[w].id] = NoFile
        /\ index[wk[w].id].content = NoText
        /\ queue # <<>>
        /\ dispatcher = "waiting"

\* worker w is in the region of lines 87-90
InLockRegion(w) == wk[w].pc \in {"move_archive", "move_thumbnail"}

\* C17: a worker is in the region that creates the destination directory and
\* moves the archive file and the thumbnail exactly when it holds the media
\* lock, so never two workers at once; and no archive file and no thumbnail
\* changes except by a step of the worker holding the lock.
C17_LockExclusion ==
    /\ [](\A w \in Workers : InLockRegion(w) <=> lock = w)
    /\ [](\A w1 \in Workers : \A w2 \in Workers :
             (InLockRegion(w1) /\ InLockRegion(w2)) => w1 = w2)
    /\ [][(files' # files \/ thumbs' # thumbs) =>
             \E w \in Workers : /\ lock = w /\ InLockRegion(w)
                                /\ wk'[w] # wk[w]
                                /\ \A v \in Workers \ {w} : wk'[v] = wk[v]
          ]_vars

\* C17 witness: a worker has moved its archive file under the lock while
\* another worker, its update staged, waits for the lock.
C17_Witness ==
    \E w1 \in Workers : \E w2 \in Workers :
        /\ lock = w1 /\ wk[w1].pc = "move_thumbnail"
        /\ files[wk[w1].document.archive_filename] = wk[w1].archive
        /\ wk[w2].pc = "lock" /\ wk[w2].staged

\* the step that follows each step of the pipeline when nothing raises
NextStep ==
    [parse |-> "thumbnail", thumbnail |-> "begin", begin |-> "update",
     update |-> "lock", lock |-> "move_archive",
     move_archive |-> "move_thumbnail", move_thumbnail |-> "commit",
     commit |-> "index", index |-> "cleanup"]

\* the steps of the commit: checksum, record update, lock, file moves
CommitSteps ==
    {"begin", "update", "lock", "move_archive", "move_thumbnail", "commit"}

\* C18: within one invocation the steps follow each other in the order
\* parse, thumbnail, commit (checksum, record update, lock, file moves),
\* index, and any step may only be followed by the next one or by cleanup:
\* thumbnail generation starts with the parse done, the commit starts with
\* the thumbnail generated, files are moved only with the record update
\* staged, and the index update starts only with the commit done.
C18_StepOrder ==
    /\ [][\A w \in Workers :
             (/\ wk[w].pc \in DOMAIN NextStep
              /\ wk'[w] # wk[w]
              /\ dispatcher' = "waiting")
             => /\ wk'[w].pc \in {NextStep[wk[w].pc], "cleanup"}
                /\ wk'[w].id = wk[w].id]_vars
    /\ [](\A w \in Workers :
             /\ wk[w].pc = "thumbnail" =>
                   (wk[w].text # NoText /\ wk[w].thumbnail = NoFile)
             /\ wk[w].pc \in CommitSteps \cup {"index"} =>
                   (wk[w].text # NoText /\ wk[w].thumbnail # NoFile)
             /\ wk[w].pc \in CommitSteps => wk[w].id \notin committed
             /\ wk[w].pc \in {"begin", "update"} => ~wk[w].staged
             /\ wk[w].pc \in {"lock", "move_archive", "move_thumbnail",
                              "commit"} => wk[w].staged
             /\ wk[w].pc = "index" =>
                   (wk[w].id \in committed /\ ~wk[w].staged))
    /\ [][(files' # files \/ thumbs' # thumbs) =>
             \E w \in Workers : /\ wk[w].staged /\ wk'[w] # wk[w]
                                /\ db[wk[w].id] = db'[wk[w].id]
                                /\ wk[w].id \notin committed]_vars

\* C18 witness: no order between documents: the second candidate of the run
\* is committed and at its index update while the first candidate, taken
\* earlier, is still being parsed.
C18_Witness ==
    \E w1 \in Workers : \E w2 \in Workers :
        /\ Len(document_ids) = 2
        /\ wk[w1].id = document_ids[1] /\ wk[w1].pc = "parse"
        /\ wk[w2].id = document_ids[2] /\ wk[w2].pc = "index"
        /\ wk[w2].id \in committed

\* C19: the file lock is held only by a worker inside the locked region, so
\* it is free again whenever that region has been left, and a run that is
\* not interrupted ends only with every candidate completed and the lock
\* free.
C19_AllCompleted ==
    /\ \A w \in Workers : lock = w => InLockRegion(w)
    /\ (dispatcher \in {"returned", "raised"} /\ run > 0 /\ ~interrupted)
          => /\ completed = Len(document_ids)
             /\ lock = 0

\* C20: whenever no invocation of handle_document is in progress for a
\* document whose record has an archive version, there is a file at the
\* record's archive path and its checksum is the record's archive_checksum.
C20_RecordMatchesFile ==
    \A d \in Docs :
        (/\ has_archive_version(db[d])
         /\ \A w \in Workers : wk[w].id # d)
        => /\ files[db[d].archive_filename] # NoFile
           /\ db[d].archive_checksum = md5(files[db[d].archive_filename])

Next ==
    \/ \E ov \in BOOLEAN, document \in {NoDoc} \cup Docs : Handle(ov, document)
    \/ Finish
    \/ PropagateError
    \/ Interrupt
    \/ \E w \in Workers : Step(w)

Spec == Init /\ [][Next]_vars

====
